---- MODULE Spec2Model ----
(***************************************************************************)
(* CBigValue (src/BigValue/BigValue.cpp): an arbitrary-size value made of  *)
(* a heap-allocated magnitude buffer (m_pBuffer, m_nBufferSize), a scale   *)
(* (m_nScale) and a sign flag (m_bNegative).                               *)
(*                                                                         *)
(* The model keeps a small set of CBigValue objects and the heap blocks    *)
(* their buffers live in.  Native values (int64_t, uint64_t, double,       *)
(* float) are given by their in-memory bytes, data[0] first (the code      *)
(* reads them through a uint8_t* view); C index i is TLA+ index i+1.       *)
(***************************************************************************)
EXTENDS Integers, Sequences, FiniteSets, TLC

(* ---------------------------------------------------------------- bounds *)

\* CBigValue objects the driver holds at once.
NumVals == 2
\* Longest caller buffer handed to fromBuffer.
MaxBufLen == 2
\* Low-order input bytes of a native value that vary independently.
VaryLen == 2
\* The driver's objects. Slot 0 is the local "value" of operator+ while it
\* runs, slot SumSlot the object the driver initialises with a sum.
Vals == 1..NumVals
SumSlot == NumVals + 1
Slots == 0..SumSlot
NumBlocks == NumVals + 2
Blocks == 1..NumBlocks

VARIABLES
    vals,   \* vals[s]: the fields of object s (or NoObject)
    heap,   \* heap[b]: state and bytes of heap block b
    err,    \* memory errors seen so far
    src,    \* src[s]: what the last constructor/decoder of s was given
    last    \* the last operation and what it read, wrote and returned

vars == <<vals, heap, err, src, last>>

(* --------------------------------------------------- C integer operators *)

RECURSIVE And(_, _)
\* a & b on non-negative integers
And(a, b) ==
    IF a = 0 \/ b = 0 THEN 0
    ELSE (a % 2) * (b % 2) + 2 * And(a \div 2, b \div 2)

RECURSIVE Or(_, _)
\* a | b on non-negative integers
Or(a, b) ==
    IF a = 0 THEN b
    ELSE IF b = 0 THEN a
    ELSE (IF a % 2 = 1 \/ b % 2 = 1 THEN 1 ELSE 0) + 2 * Or(a \div 2, b \div 2)

RECURSIVE Xor(_, _)
\* a ^ b on non-negative integers
Xor(a, b) ==
    IF a = 0 THEN b
    ELSE IF b = 0 THEN a
    ELSE (((a % 2) + (b % 2)) % 2) + 2 * Xor(a \div 2, b \div 2)

RECURSIVE Shl(_, _)
\* a << n
Shl(a, n) == IF n = 0 THEN a ELSE Shl(2 * a, n - 1)

RECURSIVE Shr(_, _)
\* a >> n
Shr(a, n) == IF n = 0 THEN a ELSE Shr(a \div 2, n - 1)

RECURSIVE TestBit(_, _)
\* (a & (1 << n)) != 0, for any n (1 << 31 is the int with only bit 31 set)
TestBit(a, n) == IF n = 0 THEN a % 2 = 1 ELSE TestBit(a \div 2, n - 1)

\* (uint8_t)~x for a byte x
NotByte(x) == 255 - x

Min(a, b) == IF a < b THEN a ELSE b
Max(a, b) == IF a > b THEN a ELSE b

Zeros(n) == [i \in 1..n |-> 0]

(* ------------------------------------------------------ objects and heap *)

NoObject ==
    [live |-> FALSE, m_pBuffer |-> 0, m_nBufferSize |-> 0,
     m_nScale |-> 0, m_bNegative |-> FALSE]

\* The member initialisers every constructor starts with.
FreshObject ==
    [live |-> TRUE, m_pBuffer |-> 0, m_nBufferSize |-> 0,
     m_nScale |-> 0, m_bNegative |-> FALSE]

UnusedBlock == [state |-> "unused", bytes |-> <<>>]

NoErr ==
    [doubleFree |-> FALSE, touchedReleased |-> FALSE,
     oobRead |-> FALSE, oobWrite |-> FALSE, nullDeref |-> FALSE]

NoSrc == [kind |-> "none", data |-> <<>>]

NoOp == [op |-> "none", slot |-> 0, a |-> <<>>, b |-> <<>>, out |-> <<>>,
         rsize |-> 0, wmax |-> -1, amax |-> -1, bmax |-> -1]

\* The memory the methods work on, as one value.
Mach == [vals |-> vals, heap |-> heap, err |-> err]

FreeBlocks(m) == {b \in Blocks : m.heap[b].state # "live"}

\* new uint8_t[n]: the lowest block not in use.
NewBlock(m) == CHOOSE b \in FreeBlocks(m) : \A c \in FreeBlocks(m) : b <= c

\* delete p
Delete(m, p) ==
    IF m.heap[p].state = "live"
    THEN [m EXCEPT !.heap[p] = [state |-> "released", bytes |-> <<>>]]
    ELSE [m EXCEPT !.err.doubleFree = TRUE]

\* p[i] = v. A write past the end of the block lands in the block adj that
\* happens to lie behind it (0: in unowned memory), d bytes into it.
PokeAdj(m, p, i, v, adj) ==
    IF p = 0 THEN [m EXCEPT !.err.nullDeref = TRUE]
    ELSE IF m.heap[p].state # "live" THEN [m EXCEPT !.err.touchedReleased = TRUE]
    ELSE IF i < Len(m.heap[p].bytes) THEN [m EXCEPT !.heap[p].bytes[i + 1] = v]
    ELSE LET d == i - Len(m.heap[p].bytes)
             m1 == [m EXCEPT !.err.oobWrite = TRUE]
         IN  IF adj = 0 \/ adj = p THEN m1
             ELSE IF m1.heap[adj].state = "released"
                  THEN [m1 EXCEPT !.err.touchedReleased = TRUE]
             ELSE IF m1.heap[adj].state = "live" /\ d < Len(m1.heap[adj].bytes)
                  THEN [m1 EXCEPT !.heap[adj].bytes[d + 1] = v]
             ELSE m1

Poke(m, p, i, v) == PokeAdj(m, p, i, v, 0)

\* Whether p[i] is a byte of a live block.
InBlock(m, p, i) ==
    p # 0 /\ m.heap[p].state = "live" /\ i < Len(m.heap[p].bytes)

\* p[i], where junk is what a read outside the block returns.
Peek(m, p, i, junk) == IF InBlock(m, p, i) THEN m.heap[p].bytes[i + 1] ELSE junk

\* The error a read of p[i] raises.
PeekErr(m, p, i) ==
    IF p = 0 THEN [m EXCEPT !.err.nullDeref = TRUE]
    ELSE IF m.heap[p].state # "live" THEN [m EXCEPT !.err.touchedReleased = TRUE]
    ELSE IF i >= Len(m.heap[p].bytes) THEN [m EXCEPT !.err.oobRead = TRUE]
    ELSE m

CreateBuffer(m, s, nBufSize) ==
    LET m1 == IF m.vals[s].m_pBuffer # 0
              THEN Delete(m, m.vals[s].m_pBuffer)
              ELSE m
        b == NewBlock(m1)
    IN  [m1 EXCEPT !.heap[b] = [state |-> "live", bytes |-> Zeros(nBufSize)],
                   !.vals[s].m_pBuffer = b,
                   !.vals[s].m_nBufferSize = nBufSize]

GrowBuffer(m, s, nBufSize) ==
    IF m.vals[s].m_pBuffer = 0 THEN CreateBuffer(m, s, nBufSize)
    ELSE IF nBufSize > m.vals[s].m_nBufferSize
    THEN LET old == m.vals[s].m_pBuffer
             b == NewBlock(m)
             kept == m.heap[old].bytes
             grown == [i \in 1..nBufSize |->
                          IF i <= m.vals[s].m_nBufferSize /\ i <= Len(kept)
                          THEN kept[i] ELSE 0]
             m1 == [m EXCEPT !.heap[b] = [state |-> "live", bytes |-> grown]]
             m2 == Delete(m1, old)
         IN  [m2 EXCEPT !.vals[s].m_pBuffer = b,
                        !.vals[s].m_nBufferSize = nBufSize]
    ELSE m

RECURSIVE StoreFrom(_, _, _, _)
\* for (i = from; i < Len(bytes); i++) m_pBuffer[i] = bytes[i] & 0xFF
StoreFrom(m, s, bytes, from) ==
    IF from >= Len(bytes) THEN m
    ELSE StoreFrom(Poke(m, m.vals[s].m_pBuffer, from, And(bytes[from + 1], 255)),
                   s, bytes, from + 1)

(* ------------------------------------------------- native constructors *)

RECURSIVE NegateFrom(_, _, _, _, _)
\* The loop of CBigValue(int64_t) for a negative value:
\* carry += (uint8_t)~data[i]; m_pBuffer[i] = carry & 0xFF; carry >>= 8
NegateFrom(m, s, data, i, carry) ==
    IF i >= 8 THEN m
    ELSE LET c == carry + NotByte(And(data[i + 1], 255))
         IN  NegateFrom(Poke(m, m.vals[s].m_pBuffer, i, And(c, 255)),
                        s, data, i + 1, Shr(c, 8))

\* The carry the negation starts with: forgetting the +1 of the code's TODO.
Int64CarryNone(negative) == 0

\* uint16_t carry = (m_bNegative) ? 1 : 0
Int64Carry(negative) == IF negative THEN 1 ELSE 0

CBigValue_int64(m, s, data) ==
    LET m0 == [m EXCEPT !.vals[s] = FreshObject]
        m1 == CreateBuffer(m0, s, 8)
        neg == TestBit(data[8], 7)
        m2 == [m1 EXCEPT !.vals[s].m_bNegative = neg, !.vals[s].m_nScale = 0]
    IN  IF neg THEN NegateFrom(m2, s, data, 0, Int64Carry(neg))
        ELSE StoreFrom(m2, s, data, 0)

CBigValue_uint64(m, s, data) ==
    LET m0 == [m EXCEPT !.vals[s] = FreshObject]
        m1 == CreateBuffer(m0, s, 8)
        m2 == [m1 EXCEPT !.vals[s].m_bNegative = FALSE, !.vals[s].m_nScale = 0]
    IN  StoreFrom(m2, s, data, 0)

CBigValue_void(m, s) == [m EXCEPT !.vals[s] = FreshObject]

Destructor(m, s) ==
    LET m1 == IF m.vals[s].m_pBuffer # 0
              THEN Delete(m, m.vals[s].m_pBuffer)
              ELSE m
    IN  [m1 EXCEPT !.vals[s] = NoObject]

(* ------------------------------------------------------ IEEE mantissa *)

RECURSIVE MaskFrom(_, _, _)
\* int mask = 1; for (shift = 1; shift < bits; shift++) mask |= (1 << shift);
\* only the low byte of mask reaches the uint8_t it is stored in, and only the
\* shifts below 8 set bits of that byte (a later shift, defined or not, can
\* only OR more bits in), so the loop is followed up to shift 7.
MaskFrom(mask, shift, bits) ==
    IF shift >= bits \/ shift >= 8 THEN mask
    ELSE MaskFrom(Or(mask, Shl(1, shift)), shift + 1, bits)

\* The byte fromIEEEMantissa stores at index i.
MantissaByte(mantissa, size, i) ==
    LET oddSize == (size % 8) # 0
    IN  IF i = 0 /\ ~oddSize
        THEN And(Xor(mantissa[1], Shl(1, 7)), 255)
        ELSE IF i = 0 /\ oddSize
        THEN LET bits == (size - ((size \div 8) * i)) - 1
             IN  And(mantissa[i + 1], MaskFrom(1, 1, bits))
        ELSE And(mantissa[i + 1], 255)

\* int count = size/8; if ((size % 8) != 0) count += 1;
MantissaCount(size) == (size \div 8) + (IF (size % 8) # 0 THEN 1 ELSE 0)

RECURSIVE MantissaFrom(_, _, _, _, _)
MantissaFrom(m, s, mantissa, size, i) ==
    IF i >= MantissaCount(size) THEN m
    ELSE MantissaFrom(
             Poke(m, m.vals[s].m_pBuffer, i, MantissaByte(mantissa, size, i)),
             s, mantissa, size, i + 1)

fromIEEEMantissa(m, s, mantissa, size) == MantissaFrom(m, s, mantissa, size, 0)

\* data + k: the bytes from index k on.
Offset(data, k) == SubSeq(data, k + 1, Len(data))

(* ------------------------------------------------ float, double decoders *)

\* m_nScale = (data[7] ^ (1 << 7)); m_nScale <<= 1;
\* m_nScale += ((data[6] & (0xF << 4)) >> 4);
DoubleScale(data) ==
    Shl(Xor(data[8], Shl(1, 7)), 1) + Shr(And(data[7], Shl(15, 4)), 4)

CBigValue_double(m, s, data) ==
    LET m0 == [m EXCEPT !.vals[s] = FreshObject]
        m1 == CreateBuffer(m0, s, 8)
        m2 == [m1 EXCEPT !.vals[s].m_bNegative = TestBit(data[8], 7),
                         !.vals[s].m_nScale = DoubleScale(data)]
    IN  fromIEEEMantissa(m2, s, Offset(data, 1), 52)

\* m_nScale = (data[3] ^ (1 << 7)); m_nScale <<= 1; m_nScale |= (data[2] & (1 << 7));
FloatScale(data) ==
    Or(Shl(Xor(data[4], Shl(1, 7)), 1), And(data[3], Shl(1, 7)))

CBigValue_float(m, s, data) ==
    LET m0 == [m EXCEPT !.vals[s] = FreshObject]
        m1 == CreateBuffer(m0, s, 4)
        m2 == [m1 EXCEPT !.vals[s].m_bNegative = TestBit(data[4], 31),
                         !.vals[s].m_nScale = FloatScale(data)]
    IN  fromIEEEMantissa(m2, s, Offset(data, 1), 23)

(* ---------------------------------------------------- buffer decoders *)

fromFFP32(m, s, data) ==
    LET m1 == CreateBuffer(m, s, 4)
        p == m1.vals[s].m_pBuffer
    IN  IF data[1] = 0 /\ data[2] = 0 /\ data[3] = 0 /\ data[4] = 0
        THEN [m1 EXCEPT !.vals[s].m_nScale = 0, !.vals[s].m_bNegative = TRUE]
        ELSE LET m2 == [m1 EXCEPT !.vals[s].m_bNegative = TestBit(data[4], 7),
                                  !.vals[s].m_nScale = Xor(data[4], Shl(1, 7))]
                 m3 == Poke(m2, p, 2, And(Xor(data[1], Shl(1, 7)), 255))
                 m4 == Poke(m3, p, 1, And(data[2], 255))
             IN  Poke(m4, p, 0, And(data[3], 255))

\* scale = ((data[0] & 0x7F) << 8) ^ (1 << 7); scale += data[1];
ExtendedScale(data) == Xor(Shl(And(data[1], 127), 8), Shl(1, 7)) + data[2]

fromExtended(m, s, data) ==
    LET m1 == CreateBuffer(m, s, 8)
        m2 == [m1 EXCEPT !.vals[s].m_bNegative = TestBit(data[1], 7),
                         !.vals[s].m_nScale = ExtendedScale(data)]
    IN  fromIEEEMantissa(m2, s, Offset(data, 2), 63)

\* scale = ((data[0] & 0x7F) << 8) ^ (1 << 7); scale += data[1];
QuadrupleScale(data) == Xor(Shl(And(data[1], 127), 8), Shl(1, 7)) + data[2]

fromQuadruple(m, s, data) ==
    LET m1 == CreateBuffer(m, s, 16)
        m2 == [m1 EXCEPT !.vals[s].m_bNegative = TestBit(data[1], 7),
                         !.vals[s].m_nScale = QuadrupleScale(data)]
    IN  fromIEEEMantissa(m2, s, Offset(data, 2), 112)

(* ------------------------------------ fromBuffer, copy, assignment *)

\* A const uint8_t*: heap block blk, or (blk = 0) caller memory holding bytes.
HeapPtr(b) == [blk |-> b, bytes |-> <<>>]
CallerPtr(bytes) == [blk |-> 0, bytes |-> bytes]

RECURSIVE MemcpyFrom(_, _, _, _, _)
\* ::memcpy(m_pBuffer, pData, nSize), byte by byte from index i
MemcpyFrom(m, s, pData, nSize, i) ==
    IF i >= nSize THEN m
    ELSE IF pData.blk = 0
    THEN MemcpyFrom(Poke(m, m.vals[s].m_pBuffer, i, pData.bytes[i + 1]),
                    s, pData, nSize, i + 1)
    ELSE MemcpyFrom(Poke(PeekErr(m, pData.blk, i), m.vals[s].m_pBuffer, i,
                         Peek(m, pData.blk, i, 0)),
                    s, pData, nSize, i + 1)

fromBuffer(m, s, pData, nSize, bIsNegative, nScale) ==
    LET m1 == CreateBuffer(m, s, nSize)
        m2 == MemcpyFrom(m1, s, pData, nSize, 0)
    IN  [m2 EXCEPT !.vals[s].m_bNegative = bIsNegative,
                   !.vals[s].m_nScale = nScale]

CBigValue_copy(m, s, other) ==
    LET m0 == [m EXCEPT !.vals[s] = FreshObject]
    IN  fromBuffer(m0, s, HeapPtr(m.vals[other].m_pBuffer),
                   m.vals[other].m_nBufferSize, m.vals[other].m_bNegative,
                   m.vals[other].m_nScale)

operator_assign(m, s, other) ==
    IF other = s THEN m
    ELSE fromBuffer(m, s, HeapPtr(m.vals[other].m_pBuffer),
                    m.vals[other].m_nBufferSize, m.vals[other].m_bNegative,
                    m.vals[other].m_nScale)

(* -------------------------------------------------------------- addition *)

\* p[i] += x on a uint8_t; past the end of the block the byte that is read
\* and written is the one PokeAdj finds there.
PokeAddAdj(m, p, i, x, adj) ==
    LET d == i - Len(m.heap[p].bytes)
        old == IF InBlock(m, p, i) THEN m.heap[p].bytes[i + 1]
               ELSE IF adj # 0 /\ InBlock(m, adj, d) THEN m.heap[adj].bytes[d + 1]
               ELSE 0
    IN  PokeAdj(m, p, i, (old + x) % 256, adj)

\* value.CreateBuffer(m_nBufferSize+1): the size operator+ gives its result.
PlusSize(la, lb) == la + 1

RECURSIVE PlusFrom(_, _, _, _, _)
\* The loop of operator+ from index i on; st holds the memory, the carry and
\* the highest index read in each operand and written in the result.
PlusFrom(st, a, b, i, adj) ==
    LET m == st.m
        la == m.vals[a].m_nBufferSize
        lb == m.vals[b].m_nBufferSize
        pa == m.vals[a].m_pBuffer
        pb == m.vals[b].m_pBuffer
    IN  IF ~(i < la \/ i < lb) THEN st
        ELSE LET readA == i < la
                 readB == i >= la \/ i < lb
                 ma == IF readA THEN PeekErr(m, pa, i) ELSE m
                 mb == IF readB THEN PeekErr(ma, pb, i) ELSE ma
                 term == (IF readA THEN Peek(m, pa, i, 0) ELSE 0)
                         + (IF readB THEN Peek(m, pb, i, 0) ELSE 0)
                 carry == (st.carry + term) % 65536
                 mw == PokeAddAdj(mb, mb.vals[0].m_pBuffer, i, And(carry, 255), adj)
             IN  PlusFrom([m |-> mw, carry |-> Shr(carry, 8),
                           amax |-> IF readA THEN i ELSE st.amax,
                           bmax |-> IF readB THEN i ELSE st.bmax,
                           wmax |-> i],
                          a, b, i + 1, adj)

\* operator+ up to its return statement: the result is the local in slot 0.
operator_plus(m, a, b, adj) ==
    LET m0 == [m EXCEPT !.vals[0] = FreshObject]
        m1 == CreateBuffer(m0, 0, PlusSize(m.vals[a].m_nBufferSize,
                                           m.vals[b].m_nBufferSize))
        st == PlusFrom([m |-> m1, carry |-> 0, amax |-> -1, bmax |-> -1,
                        wmax |-> -1], a, b, 0, adj)
        top == st.m.vals[0].m_nBufferSize - 1
    IN  IF st.carry > 0
        THEN [st EXCEPT !.m = PokeAddAdj(st.m, st.m.vals[0].m_pBuffer, top,
                                         And(st.carry, 255), adj),
                        !.wmax = Max(st.wmax, top)]
        ELSE st

\* return value; into the caller's object r: the local becomes r (copy
\* elision), or r is copy-constructed from it and the local destroyed.
ReturnValue(m, r, elide) ==
    IF elide
    THEN [m EXCEPT !.vals[r] = m.vals[0], !.vals[0] = NoObject]
    ELSE Destructor(CBigValue_copy(m, r, 0), 0)

(* ------------------------------------------------------------ conversion *)

\* Dropping the top byte: a loop bound of sizeof(value) - 1.
Uint64BytesShort(m, s, junk) ==
    [i \in 1..8 |-> IF i = 8 THEN 0 ELSE Peek(m, m.vals[s].m_pBuffer, i - 1, junk[i])]

\* operator uint64_t: data[i] = m_pBuffer[i] for i < 8, whatever the buffer's
\* size; junk[i] is what a read past the buffer's end returns.
Uint64Bytes(m, s, junk) ==
    [i \in 1..8 |-> Peek(m, m.vals[s].m_pBuffer, i - 1, junk[i])]

RECURSIVE Uint64Errs(_, _, _)
Uint64Errs(m, s, i) ==
    IF i >= 8 THEN m
    ELSE Uint64Errs(PeekErr(m, m.vals[s].m_pBuffer, i), s, i + 1)

operator_uint64(m, s, junk) ==
    [m |-> Uint64Errs(m, s, 0), value |-> Uint64Bytes(m, s, junk)]

(* ------------------------------------------------------------- inputs *)

ByteSamples == {0, 1, 127, 128, 255}

\* The values main() of arbitrarymath.cpp constructs, as int64_t bytes.
MainValues ==
    { <<210, 4, 0, 0, 0, 0, 0, 0>>,
      <<46, 251, 255, 255, 255, 255, 255, 255>>,
      <<78, 87, 146, 243, 57, 96, 68, 15>>,
      <<178, 168, 109, 12, 198, 159, 187, 240>> }

\* 42.10, -42.10 (main()'s commented-out values), 1.0 and -1.0 as doubles.
MainDoubles ==
    { <<205, 204, 204, 204, 204, 12, 69, 64>>,
      <<205, 204, 204, 204, 204, 12, 69, 192>>,
      <<0, 0, 0, 0, 0, 0, 240, 63>>,
      <<0, 0, 0, 0, 0, 0, 240, 191>> }

\* 42.1f, -42.1f, 1.0f and -1.0f as floats.
MainFloats ==
    { <<102, 102, 40, 66>>, <<102, 102, 40, 194>>,
      <<0, 0, 128, 63>>, <<0, 0, 128, 191>> }

\* n-byte values: the first VaryLen bytes and the last byte vary, the bytes
\* between them repeat one sample.
Inputs(n) ==
    { [i \in 1..n |-> IF i <= Len(lo) THEN lo[i]
                      ELSE IF i = n THEN hi ELSE fill] :
        lo \in [1..Min(VaryLen, n - 1) -> ByteSamples],
        fill \in ByteSamples, hi \in ByteSamples }

Int64Inputs == Inputs(8) \cup MainValues
DoubleInputs == Inputs(8) \cup MainDoubles
FloatInputs == Inputs(4) \cup MainFloats
FFP32Inputs == Inputs(4)
ExtendedInputs == Inputs(10)
QuadrupleInputs == Inputs(16)

(* ------------------------------------------------------------- actions *)

\* The bytes of object s's magnitude buffer.
Magnitude(s) ==
    IF vals[s].m_pBuffer = 0 THEN <<>> ELSE heap[vals[s].m_pBuffer].bytes

Commit(m) == vals' = m.vals /\ heap' = m.heap /\ err' = m.err

\* Whether CreateBuffer on object s finds a block to allocate.
CanCreate(s) == FreeBlocks(Mach) # {} \/ vals[s].m_pBuffer # 0

Construct_int64(s, data) ==
    /\ ~vals[s].live
    /\ CanCreate(s)
    /\ Commit(CBigValue_int64(Mach, s, data))
    /\ src' = [src EXCEPT ![s] = [kind |-> "int64", data |-> data]]
    /\ last' = [NoOp EXCEPT !.op = "CBigValue(int64_t)", !.slot = s, !.a = data]

Construct_uint64(s, data) ==
    /\ ~vals[s].live
    /\ CanCreate(s)
    /\ Commit(CBigValue_uint64(Mach, s, data))
    /\ src' = [src EXCEPT ![s] = [kind |-> "uint64", data |-> data]]
    /\ last' = [NoOp EXCEPT !.op = "CBigValue(uint64_t)", !.slot = s, !.a = data]

Construct_double(s, data) ==
    /\ ~vals[s].live
    /\ CanCreate(s)
    /\ Commit(CBigValue_double(Mach, s, data))
    /\ src' = [src EXCEPT ![s] = [kind |-> "double", data |-> data]]
    /\ last' = [NoOp EXCEPT !.op = "CBigValue(double)", !.slot = s, !.a = data]

Construct_float(s, data) ==
    /\ ~vals[s].live
    /\ CanCreate(s)
    /\ Commit(CBigValue_float(Mach, s, data))
    /\ src' = [src EXCEPT ![s] = [kind |-> "float", data |-> data]]
    /\ last' = [NoOp EXCEPT !.op = "CBigValue(float)", !.slot = s, !.a = data]

Construct_void(s) ==
    /\ ~vals[s].live
    /\ Commit(CBigValue_void(Mach, s))
    /\ src' = [src EXCEPT ![s] = [kind |-> "void", data |-> <<>>]]
    /\ last' = [NoOp EXCEPT !.op = "CBigValue(void)", !.slot = s]

Decode_FFP32(s, data) ==
    /\ vals[s].live
    /\ CanCreate(s)
    /\ Commit(fromFFP32(Mach, s, data))
    /\ src' = [src EXCEPT ![s] = [kind |-> "ffp32", data |-> data]]
    /\ last' = [NoOp EXCEPT !.op = "fromFFP32", !.slot = s, !.a = data]

Decode_Extended(s, data) ==
    /\ vals[s].live
    /\ CanCreate(s)
    /\ Commit(fromExtended(Mach, s, data))
    /\ src' = [src EXCEPT ![s] = [kind |-> "extended", data |-> data]]
    /\ last' = [NoOp EXCEPT !.op = "fromExtended", !.slot = s, !.a = data]

Decode_Quadruple(s, data) ==
    /\ vals[s].live
    /\ CanCreate(s)
    /\ Commit(fromQuadruple(Mach, s, data))
    /\ src' = [src EXCEPT ![s] = [kind |-> "quadruple", data |-> data]]
    /\ last' = [NoOp EXCEPT !.op = "fromQuadruple", !.slot = s, !.a = data]

\* (uint64_t)v. On a value without a buffer the read of m_pBuffer[0] is a
\* null dereference and the program does not continue.
Convert_uint64(s, junk) ==
    /\ vals[s].live
    /\ vals[s].m_pBuffer # 0
    /\ LET r == operator_uint64(Mach, s, junk)
       IN  /\ Commit(r.m)
           /\ last' = [NoOp EXCEPT !.op = "operator uint64_t", !.slot = s,
                                   !.out = r.value]
    /\ UNCHANGED src

Destroy(s) ==
    /\ vals[s].live
    /\ Commit(Destructor(Mach, s))
    /\ src' = [src EXCEPT ![s] = NoSrc]
    /\ last' = [NoOp EXCEPT !.op = "~CBigValue", !.slot = s]

Decode_Buffer(s, bytes, bIsNegative, nScale) ==
    /\ vals[s].live
    /\ CanCreate(s)
    /\ Commit(fromBuffer(Mach, s, CallerPtr(bytes), Len(bytes), bIsNegative, nScale))
    /\ src' = [src EXCEPT ![s] = [kind |-> "buffer", data |-> <<>>]]
    /\ last' = [NoOp EXCEPT !.op = "fromBuffer", !.slot = s, !.a = bytes]

Copy(s, other) ==
    /\ ~vals[s].live
    /\ vals[other].live
    /\ CanCreate(s)
    /\ Commit(CBigValue_copy(Mach, s, other))
    /\ src' = [src EXCEPT ![s] = src[other]]
    /\ last' = [NoOp EXCEPT !.op = "CBigValue(const CBigValue&)", !.slot = s]

Assign(s, other) ==
    /\ vals[s].live
    /\ vals[other].live
    /\ CanCreate(s)
    /\ Commit(operator_assign(Mach, s, other))
    /\ src' = [src EXCEPT ![s] = src[other]]
    /\ last' = [NoOp EXCEPT !.op = "operator =", !.slot = s]

Grow(s, nBufSize) ==
    /\ vals[s].live
    /\ FreeBlocks(Mach) # {}
    /\ Commit(GrowBuffer(Mach, s, nBufSize))
    /\ src' = [src EXCEPT ![s] = IF nBufSize > vals[s].m_nBufferSize
                                 THEN [kind |-> "grown", data |-> <<>>]
                                 ELSE src[s]]
    /\ last' = [NoOp EXCEPT !.op = "GrowBuffer", !.slot = s]

\* Whether the addition that ended in st wrote past the end of its result.
Overran(st) == st.wmax >= Len(st.m.heap[st.m.vals[0].m_pBuffer].bytes)

\* CBigValue r(a + b), for a caller's object r under construction. adj is the
\* block that lies behind the result buffer (0: none), which matters to an
\* addition that writes past the end of the buffer.
Add(a, b, r, elide) ==
    /\ vals[a].live /\ vals[b].live /\ ~vals[r].live
    /\ Cardinality(FreeBlocks(Mach)) >= 2
    /\ \E st0 \in {operator_plus(Mach, a, b, 0)} :
       \E adj \in IF Overran(st0) THEN {0} \cup Blocks ELSE {0} :
       \E st \in {IF adj = 0 THEN st0 ELSE operator_plus(Mach, a, b, adj)} :
          /\ Commit(ReturnValue(st.m, r, elide))
          /\ last' = [op |-> "operator +", slot |-> r,
                      a |-> Magnitude(a), b |-> Magnitude(b),
                      out |-> st.m.heap[st.m.vals[0].m_pBuffer].bytes,
                      rsize |-> Len(st.m.heap[st.m.vals[0].m_pBuffer].bytes),
                      wmax |-> st.wmax, amax |-> st.amax, bmax |-> st.bmax]
    /\ src' = [src EXCEPT ![r] = [kind |-> "sum", data |-> <<>>]]

Init ==
    /\ vals = [s \in Slots |-> NoObject]
    /\ heap = [b \in Blocks |-> UnusedBlock]
    /\ err = NoErr
    /\ src = [s \in Slots |-> NoSrc]
    /\ last = NoOp

(* main() of arbitrarymath.cpp: one value at a time is built from a native *)
(* integer, converted back and destroyed.                                  *)
NextNative ==
    \/ \E data \in Int64Inputs : Construct_int64(1, data)
    \/ \E data \in Int64Inputs : Construct_uint64(1, data)
    \/ Convert_uint64(1, Zeros(8))
    \/ Destroy(1)

SpecNative == Init /\ [][NextNative]_vars

(* One value at a time is built from a float or a double, or default-      *)
(* constructed and filled by one decoder, and destroyed.                   *)
NextDecode ==
    \/ \E data \in DoubleInputs : Construct_double(1, data)
    \/ \E data \in FloatInputs : Construct_float(1, data)
    \/ Construct_void(1)
    \/ \E data \in FFP32Inputs : vals[1].m_pBuffer = 0 /\ Decode_FFP32(1, data)
    \/ \E data \in ExtendedInputs : vals[1].m_pBuffer = 0 /\ Decode_Extended(1, data)
    \/ \E data \in QuadrupleInputs : vals[1].m_pBuffer = 0 /\ Decode_Quadruple(1, data)
    \/ Destroy(1)

SpecDecode == Init /\ [][NextDecode]_vars

(* A program that holds NumVals objects and constructs, decodes, copies,   *)
(* assigns, grows and destroys them in any order; now and then it builds   *)
(* the sum of two of them in a further object and destroys that again.     *)
BufferInputs ==
    { [i \in 1..n |-> 255] : n \in 0..MaxBufLen } \cup { <<1>> }

\* The driver leaves its objects alone while the sum is alive, and after a
\* memory error it does nothing more than destroy what it holds.
NoSum == ~vals[SumSlot].live /\ err = NoErr

Next ==
    \/ \E s \in Vals :
          NoSum /\ Construct_int64(s, <<46, 251, 255, 255, 255, 255, 255, 255>>)
    \/ \E s \in Vals : NoSum /\ Construct_uint64(s, <<210, 4, 0, 0, 0, 0, 0, 0>>)
    \/ \E s \in Vals :
          NoSum /\ Construct_double(s, <<205, 204, 204, 204, 204, 12, 69, 192>>)
    \/ \E s \in Vals : NoSum /\ Construct_float(s, <<102, 102, 40, 194>>)
    \/ \E s \in Vals : NoSum /\ Construct_void(s)
    \/ \E s, o \in Vals : NoSum /\ Copy(s, o)
    \/ \E s, o \in Vals : NoSum /\ Assign(s, o)
    \/ \E s \in Vals, data \in {Zeros(4), <<200, 0, 0, 193>>} :
          NoSum /\ Decode_FFP32(s, data)
    \/ \E s \in Vals :
          NoSum /\ Decode_Extended(s, <<192, 1, 128, 0, 0, 0, 0, 0, 0, 1>>)
    \/ \E s \in Vals :
          NoSum /\ Decode_Quadruple(s, <<192, 1, 128, 0, 0, 0, 0, 0,
                                         0, 0, 0, 0, 0, 0, 0, 1>>)
    \/ \E s \in Vals, bytes \in BufferInputs : NoSum /\ Decode_Buffer(s, bytes, FALSE, 0)
    \/ \E s \in Vals : NoSum /\ Grow(s, MaxBufLen + 1)
    \/ \E a, b \in Vals, elide \in BOOLEAN :
          err = NoErr /\ Add(a, b, SumSlot, elide)
    \/ \E s \in Vals : ~vals[SumSlot].live /\ Destroy(s)
    \/ Destroy(SumSlot)

Spec == Init /\ [][Next]_vars

(* ------------------------------------------------------------ the claims *)

Built(s, kind) == vals[s].live /\ src[s].kind = kind

Converted(s, kind) ==
    Built(s, kind) /\ last.op = "operator uint64_t" /\ last.slot = s

\* The carry out of byte position i (1-based) when x and y are added as
\* little-endian numbers; a byte past the end of a sequence counts as 0.
ByteAt(x, i) == IF i <= Len(x) THEN x[i] ELSE 0

RECURSIVE CarryOut(_, _, _)
CarryOut(x, y, i) ==
    IF i = 0 THEN 0
    ELSE (ByteAt(x, i) + ByteAt(y, i) + CarryOut(x, y, i - 1)) \div 256

\* Byte i of the number x + y.
SumByte(x, y, i) == (ByteAt(x, i) + ByteAt(y, i) + CarryOut(x, y, i - 1)) % 256

\* x + y = 2^(8n), for n-byte x and y: x is the n-byte two's complement of y.
SumsToPower(x, y, n) ==
    /\ Len(x) = n /\ Len(y) = n
    /\ \A i \in 1..n : SumByte(x, y, i) = 0
    /\ CarryOut(x, y, n) = 1

\* mag is |v| for the int64_t v with bytes data, as an unsigned 64-bit number.
IsAbs(mag, data) ==
    IF data[8] >= 128 THEN SumsToPower(mag, data, 8) ELSE mag = data

\* C1: a value constructed from an unsigned 64-bit integer v converts back,
\* with the uint64_t operator, to exactly v.
C1_RoundTrip ==
    \A s \in Vals : Converted(s, "uint64") => last.out = src[s].data

C1_Witness ==
    /\ Converted(1, "uint64")
    /\ src[1].data = <<78, 87, 146, 243, 57, 96, 68, 15>>
    /\ last.out = <<78, 87, 146, 243, 57, 96, 68, 15>>

\* C5: a value constructed from a signed 64-bit integer v has sign = (v < 0),
\* scale 0 and an 8-byte magnitude equal to |v| (2^63 for the most negative
\* v), and converting it to uint64_t returns |v|.
C5_SignedMagnitude ==
    \A s \in Vals : Built(s, "int64") =>
        /\ vals[s].m_bNegative = (src[s].data[8] >= 128)
        /\ vals[s].m_nScale = 0
        /\ vals[s].m_nBufferSize = 8
        /\ IsAbs(Magnitude(s), src[s].data)
        /\ Converted(s, "int64") => IsAbs(last.out, src[s].data)

C5_Witness ==
    /\ Converted(1, "int64")
    /\ src[1].data = <<0, 0, 0, 0, 0, 0, 0, 128>>
    /\ vals[1].m_bNegative
    /\ last.out = <<0, 0, 0, 0, 0, 0, 0, 128>>

\* The 11-bit biased exponent field of the double with bytes data.
DoubleExponent(data) == (data[8] % 128) * 16 + (data[7] \div 16)

\* A normalized double (exponent field in 1..2046) of either sign, or 0.0.
NormalOrZero(data) ==
    \/ DoubleExponent(data) \in 1..2046
    \/ data = Zeros(8)

\* The double with object s's sign flag in bit 63, its scale in bits 62..52
\* and its magnitude in bits 51..0, as bytes.
Reassembled(s) ==
    LET mag == Magnitude(s)
    IN  [i \in 1..8 |->
            IF i <= 6 THEN mag[i]
            ELSE IF i = 7 THEN (vals[s].m_nScale % 16) * 16 + mag[7]
            ELSE (IF vals[s].m_bNegative THEN 128 ELSE 0)
                 + (vals[s].m_nScale \div 16)]

\* C4: for a normalized double d of either sign, or 0.0, the sign flag, the
\* scale (as the 11 exponent bits) and the magnitude (as the 52 mantissa
\* bits) of the value built from d reassemble to d's 64 bits.
C4_DoubleRoundTrip ==
    \A s \in Vals : Built(s, "double") /\ NormalOrZero(src[s].data) =>
        /\ Len(Magnitude(s)) = 8
        /\ vals[s].m_nScale < 2048
        /\ Magnitude(s)[7] < 16 /\ Magnitude(s)[8] = 0
        /\ Reassembled(s) = src[s].data

\* C8: after the float, double, extended and quadruple decoders the sign flag
\* is the source's sign bit: the top bit of byte 3 (float), of byte 7
\* (double), of byte 0 (extended, quadruple).
C8_SignIsSignBit ==
    \A s \in Vals :
        /\ Built(s, "float") => vals[s].m_bNegative = (src[s].data[4] >= 128)
        /\ Built(s, "double") => vals[s].m_bNegative = (src[s].data[8] >= 128)
        /\ Built(s, "extended") => vals[s].m_bNegative = (src[s].data[1] >= 128)
        /\ Built(s, "quadruple") => vals[s].m_bNegative = (src[s].data[1] >= 128)

\* C9: after an IEEE-family decoder the scale is the source's biased exponent
\* field: 11 bits for double, 8 bits for float, 15 bits for extended and
\* quadruple.
C9_ScaleIsExponent ==
    \A s \in Vals :
        /\ Built(s, "double") => vals[s].m_nScale = DoubleExponent(src[s].data)
        /\ Built(s, "float") =>
              vals[s].m_nScale
                  = (src[s].data[4] % 128) * 2 + (src[s].data[3] \div 128)
        /\ Built(s, "extended") =>
              vals[s].m_nScale = (src[s].data[1] % 128) * 256 + src[s].data[2]
        /\ Built(s, "quadruple") =>
              vals[s].m_nScale = (src[s].data[1] % 128) * 256 + src[s].data[2]

\* The first n bytes of mag are the bytes of mantissa with the top bit of the
\* first one cleared.
TopBitCleared(mag, mantissa, n) ==
    /\ Len(mag) >= n
    /\ mag[1] = mantissa[1] % 128
    /\ \A i \in 2..n : mag[i] = mantissa[i]

\* C10: for the bit widths 52 (double) and 112 (quadruple) the mantissa
\* extraction stores ceil(width/8) bytes: the first source byte with exactly
\* its top bit cleared, then the other source bytes unchanged.
C10_EvenWidthClearsTopBit ==
    \A s \in Vals :
        /\ Built(s, "double") =>
              TopBitCleared(Magnitude(s), Offset(src[s].data, 1), 7)
        /\ Built(s, "quadruple") =>
              TopBitCleared(Magnitude(s), Offset(src[s].data, 2), 14)

\* The first n bytes of mag are the bytes of mantissa with only the low k
\* bits of the first one kept.
LowBitsKept(mag, mantissa, n, k) ==
    /\ Len(mag) >= n
    /\ mag[1] = mantissa[1] % (2 ^ k)
    /\ \A i \in 2..n : mag[i] = mantissa[i]

\* C11: for the bit widths 23 (float) and 63 (extended) the mantissa
\* extraction stores ceil(width/8) bytes: the first source byte with only its
\* low (width mod 8) = 7 bits kept and every higher bit zero, then the other
\* source bytes unchanged.
C11_OddWidthMasksFirstByte ==
    \A s \in Vals :
        /\ Built(s, "float") =>
              LowBitsKept(Magnitude(s), Offset(src[s].data, 1), 3, 23 % 8)
        /\ Built(s, "extended") =>
              LowBitsKept(Magnitude(s), Offset(src[s].data, 2), 8, 63 % 8)

\* C2: an addition reads only indices below each operand's length, writes
\* only indices below the result buffer's length, and its result buffer has
\* at least max(la, lb) + 1 bytes, whatever the operands' lengths la and lb.
C2_AddInBounds ==
    last.op = "operator +" =>
        /\ last.amax < Len(last.a)
        /\ last.bmax < Len(last.b)
        /\ last.wmax < last.rsize
        /\ last.rsize >= Max(Len(last.a), Len(last.b)) + 1

\* C3: the result of an addition, read as a little-endian number, is the sum
\* of the operands' magnitudes: its byte i is (a[i] + b[i] + carry) mod 256,
\* the last carry is its new high byte, and no byte of the sum is missing.
C3_AddIsSum ==
    last.op = "operator +" =>
        \A i \in 1..(Max(Len(last.a), Len(last.b)) + 1) :
            i <= Len(last.out) /\ last.out[i] = SumByte(last.a, last.b, i)

\* C6: fromFFP32 of four zero bytes, on a value in any state, leaves an
\* all-zero 4-byte magnitude, scale 0 and a positive sign.
C6_FFP32Zero ==
    last.op = "fromFFP32" /\ last.a = Zeros(4) =>
        /\ Magnitude(last.slot) = Zeros(4)
        /\ vals[last.slot].m_nScale = 0
        /\ vals[last.slot].m_bNegative = FALSE

\* The blocks the live objects point to.
Owned == {vals[s].m_pBuffer : s \in {x \in Slots : vals[x].live}} \ {0}

\* C7: no buffer is released twice, no released buffer is read or written,
\* each live value holds at most one buffer and shares it with no other,
\* and every allocated buffer belongs to a live value (so none remains once
\* all values are destroyed).
C7_BuffersReleasedOnce ==
    /\ ~err.doubleFree
    /\ ~err.touchedReleased
    /\ \A s \in Slots : vals[s].live /\ vals[s].m_pBuffer # 0 =>
          heap[vals[s].m_pBuffer].state = "live"
    /\ \A s, x \in Slots :
          vals[s].live /\ vals[x].live /\ s # x /\ vals[s].m_pBuffer # 0 =>
              vals[s].m_pBuffer # vals[x].m_pBuffer
    /\ {b \in Blocks : heap[b].state = "live"} = Owned

====
